---- MODULE Spec2Model ----
(***************************************************************************)
(* Model of geth/jail/jail.go: the Jail registry of cells (BaseJS,         *)
(* NewCell, Cell, Parse, Call) and the jeth.send dispatcher (Send), run    *)
(* against the script fixture of geth/jail/rxsend_test.go.                 *)
(*                                                                         *)
(* Every goroutine calling into the Jail is a process of Procs.  A process *)
(* is at a program location pc[t]; the locations are named after the Go    *)
(* function and the line group they stand for.  Jail.Cell and Jail.NewCell *)
(* are also called from Jail.Parse and Jail.Call: cont[t] is the location  *)
(* the nested call returns to.                                             *)
(***************************************************************************)
EXTENDS Integers, Sequences, FiniteSets, TLC

\* ---------------------------------------------------------------- bounds
MaxCells == 2        \* Cell instances newCell can allocate in one run
CycleBatch == 1      \* longest batch sent by a dispatch cycle under Spec
MaxBatch == 3        \* longest batch sent by a dispatch cycle under SpecSend

Procs == {"p1", "p2"}
Sessions == {"s1", "s2"}       \* chatIDs callers name
NewSessions == {"s1"}          \* chatIDs callers create Cells for (Parse, NewCell)
Ids == {1, 2}                  \* values of RPCCall.ID in request payloads
BaseSources == {"b1"}          \* arguments of Jail.BaseJS
CtxKeys == {"k"}               \* keys addContext puts under context[message_id]

NoProc == "none"
NilCell == 0
CellIds == 1..MaxCells

VARIABLES
    cells,        \* jail.cells: chatID -> Cell (NilCell: no entry)
    baseJSCode,   \* jail.baseJSCode
    rwWriter,     \* jail.RWMutex: the process holding Lock, or NoProc
    rwReaders,    \* jail.RWMutex: the processes holding RLock
    nextCell,     \* number of the next Cell instance newCell allocates
    heap,         \* the Cell instances: see FreshCell
    pc, op, sid, js, cont,  \* location, running API call, its arguments chatID and
                            \* js (of BaseJS), return location
    cell, err, res, ret, \* locals `cell`, `err`, `res` (as text); the string the
                         \* API call returned
    payload,      \* call.Argument(0) of the running Send
    batch, reqs, idx, req, resps,  \* locals of Send; req is the range variable
    execLog,      \* calls the running Send handed to jail.policy.Execute, with
                  \* the outcome of each ("pending" while Execute runs)
    sendRet,      \* what Send handed back to the script
    added,        \* context keys added by addContext during the running cycle
    wiped         \* the context the running cycle's call() found in the global

regVars == <<cells, baseJSCode, rwWriter, rwReaders, nextCell, heap>>
ctlVars == <<pc, op, sid, js, cont, cell, err, res, ret>>
sendVars == <<payload, batch, reqs, idx, req, resps, execLog, sendRet>>
cycleVars == <<added, wiped>>
vars == <<regVars, ctlVars, sendVars, cycleVars>>

\* ------------------------------------------------------------ cell heap
\* newCell(chatID, vm): a Cell around a fresh otto VM.  jeth is the global
\* `jeth` ("none", the empty "object" Parse sets, or the object with its
\* "handlers"), boot is the last bootstrap text run in the Cell, script
\* tells whether the fixture's globals (call, addContext, ...) exist,
\* context is the fixture's global `context` under status.message_id, lock
\* the process inside the Cell.  The Cells with numbers from nextCell on do
\* not exist yet.
FreshCell ==
    [jeth |-> "none", boot |-> "none", script |-> FALSE, context |-> {}, lock |-> NoProc]

\* ------------------------------------------------------ envelope helpers
\* encoding/json writing one character of a string: the quote, the
\* backslash and the control characters are escaped, and so are <, > and &.
EscapeChar(c) ==
    CASE c = "\"" -> "\\\""
      [] c = "\\" -> "\\\\"
      [] c = "\n" -> "\\n"
      [] c = "\t" -> "\\t"
      [] c = "<" -> "\\u003c"
      [] c = ">" -> "\\u003e"
      [] c = "&" -> "\\u0026"
      [] OTHER -> c

RECURSIVE EscapeText(_)
EscapeText(s) ==
    IF Len(s) = 0 THEN ""
    ELSE EscapeChar(SubSeq(s, 1, 1)) \o EscapeText(SubSeq(s, 2, Len(s)))

\* json.Marshal of a Go string
Quote(s) == "\"" \o EscapeText(s) \o "\""

\* jail.go:259-265
makeError(error) == "{\"error\":" \o Quote(error) \o "}"

\* makeResult without the normalization of lines 272-274.
makeResultRaw(text, e) ==
    IF e # "" THEN makeError(e) ELSE "{\"result\": " \o text \o "}"

\* jail.go:267-279; text is the parameter res, e the text of err ("" for nil)
makeResult(text, e) ==
    IF e # "" THEN makeError(e)
    ELSE "{\"result\": " \o (IF text = "undefined" THEN "null" ELSE text) \o "}"

CellNotFound(chatID) == "cell[" \o chatID \o "] doesn't exist"

\* ------------------------------------------------------- local variables
NoCall == [ID |-> 0]
NoPayload == [kind |-> "none", calls |-> <<>>]
NoSendRet == [kind |-> "none", val |-> <<>>]

Goto(t, loc) == pc' = [pc EXCEPT ![t] = loc]

\* ================================================================ BaseJS
\* jail.go:55  BaseJS(js) is called
BaseJSStart(t, text) ==
    /\ pc[t] = "idle"
    /\ pc' = [pc EXCEPT ![t] = "BaseJS_write"]
    /\ op' = [op EXCEPT ![t] = "BaseJS"]
    /\ js' = [js EXCEPT ![t] = text]
    /\ UNCHANGED <<regVars, sid, cont, cell, err, res, ret, sendVars, cycleVars>>

\* BaseJS running the new source in the Cells that ran a bootstrap before.
BaseJSReinit(t) ==
    /\ pc[t] = "BaseJS_write"
    /\ baseJSCode' = js[t]
    /\ heap' = [c \in CellIds |->
                  IF heap[c].boot = "none" THEN heap[c]
                  ELSE [heap[c] EXCEPT !.boot = js[t] \o ";"]]
    /\ Goto(t, "done")
    /\ UNCHANGED <<cells, rwWriter, rwReaders, nextCell, op, sid, js, cont, cell, err,
                   res, ret, sendVars, cycleVars>>

\* jail.go:56  jail.baseJSCode = js: a plain store, under no lock; it is
\* in progress while the process is at this location
BaseJS_write(t) ==
    /\ pc[t] = "BaseJS_write"
    /\ baseJSCode' = js[t]
    /\ Goto(t, "done")
    /\ UNCHANGED <<cells, rwWriter, rwReaders, nextCell, heap, op, sid, js, cont, cell,
                   err, res, ret, sendVars, cycleVars>>

\* ================================================================== Cell
\* Entry of a direct call of Jail.Cell.
CellStart(t, chatID) ==
    /\ pc[t] = "idle"
    /\ pc' = [pc EXCEPT ![t] = "Cell_rlock"]
    /\ op' = [op EXCEPT ![t] = "Cell"]
    /\ sid' = [sid EXCEPT ![t] = chatID]
    /\ cont' = [cont EXCEPT ![t] = "done"]
    /\ UNCHANGED <<regVars, js, cell, err, res, ret, sendVars, cycleVars>>

\* jail.go:81  jail.RLock()
Cell_rlock(t) ==
    /\ pc[t] = "Cell_rlock"
    /\ rwWriter = NoProc
    /\ rwReaders' = rwReaders \cup {t}
    /\ Goto(t, "Cell_read")
    /\ UNCHANGED <<cells, baseJSCode, rwWriter, nextCell, heap, op, sid, js, cont, cell, err,
                   res, ret, sendVars, cycleVars>>

\* The result of the map lookup of jail.go:84-89.
Lookup(chatID) ==
    IF cells[chatID] = NilCell
    THEN [cell |-> NilCell, err |-> CellNotFound(chatID)]
    ELSE [cell |-> cells[chatID], err |-> ""]

\* Jail.Cell registering a new Cell for a chatID it does not find.
Cell_readOrCreate(t) ==
    /\ pc[t] = "Cell_read"
    /\ IF cells[sid[t]] = NilCell /\ nextCell <= MaxCells
       THEN /\ cells' = [cells EXCEPT ![sid[t]] = nextCell]
            /\ nextCell' = nextCell + 1
            /\ cell' = [cell EXCEPT ![t] = nextCell]
            /\ err' = [err EXCEPT ![t] = ""]
       ELSE /\ cell' = [cell EXCEPT ![t] = cells[sid[t]]]
            /\ err' = [err EXCEPT ![t] =
                         IF cells[sid[t]] = NilCell THEN "cell[" \o sid[t] \o "] doesn't exist"
                         ELSE ""]
            /\ UNCHANGED <<cells, nextCell>>
    /\ rwReaders' = rwReaders \ {t}
    /\ pc' = [pc EXCEPT ![t] = cont[t]]
    /\ UNCHANGED <<baseJSCode, rwWriter, heap, op, sid, js, cont, res, ret, sendVars, cycleVars>>

\* Jail.Cell returning with the read lock still held.
Cell_readHold(t) ==
    /\ pc[t] = "Cell_read"
    /\ cell' = [cell EXCEPT ![t] = Lookup(sid[t]).cell]
    /\ err' = [err EXCEPT ![t] = Lookup(sid[t]).err]
    /\ Goto(t, cont[t])
    /\ UNCHANGED <<cells, baseJSCode, rwWriter, rwReaders, nextCell, heap, op, sid, js, cont,
                   res, ret, sendVars, cycleVars>>

\* jail.go:84-90 with the deferred RUnlock of line 82
Cell_read(t) ==
    /\ pc[t] = "Cell_read"
    /\ cell' = [cell EXCEPT ![t] = Lookup(sid[t]).cell]
    /\ err' = [err EXCEPT ![t] = Lookup(sid[t]).err]
    /\ rwReaders' = rwReaders \ {t}
    /\ Goto(t, cont[t])
    /\ UNCHANGED <<cells, baseJSCode, rwWriter, nextCell, heap, op, sid, js, cont, res, ret,
                   sendVars, cycleVars>>

\* =============================================================== NewCell
\* Entry of a direct call of Jail.NewCell.
NewCellStart(t, chatID) ==
    /\ pc[t] = "idle"
    /\ pc' = [pc EXCEPT ![t] = "NewCell_alloc"]
    /\ op' = [op EXCEPT ![t] = "NewCell"]
    /\ sid' = [sid EXCEPT ![t] = chatID]
    /\ cont' = [cont EXCEPT ![t] = "done"]
    /\ UNCHANGED <<regVars, js, cell, err, res, ret, sendVars, cycleVars>>

\* jail.go:65-70  otto.New(), newCell: a fresh Cell, or newCell's error
NewCell_alloc(t) ==
    /\ pc[t] = "NewCell_alloc"
    /\ \/ /\ nextCell <= MaxCells
          /\ heap' = [heap EXCEPT ![nextCell] = FreshCell]
          /\ cell' = [cell EXCEPT ![t] = nextCell]
          /\ err' = [err EXCEPT ![t] = ""]
          /\ nextCell' = nextCell + 1
          /\ Goto(t, "NewCell_lock")
       \/ /\ cell' = [cell EXCEPT ![t] = NilCell]
          /\ err' = [err EXCEPT ![t] = "newCell failed"]
          /\ Goto(t, cont[t])
          /\ UNCHANGED <<nextCell, heap>>
    /\ UNCHANGED <<cells, baseJSCode, rwWriter, rwReaders, op, sid, js, cont, res, ret,
                   sendVars, cycleVars>>

\* NewCell taking the lock in read mode: it waits for no reader.
NewCell_rlock(t) ==
    /\ pc[t] = "NewCell_lock"
    /\ rwWriter = NoProc
    /\ rwWriter' = t
    /\ Goto(t, "NewCell_write")
    /\ UNCHANGED <<cells, baseJSCode, rwReaders, nextCell, heap, op, sid, js, cont, cell, err,
                   res, ret, sendVars, cycleVars>>

\* jail.go:72  jail.Lock()
NewCell_lock(t) ==
    /\ pc[t] = "NewCell_lock"
    /\ rwWriter = NoProc
    /\ rwReaders = {}
    /\ rwWriter' = t
    /\ Goto(t, "NewCell_write")
    /\ UNCHANGED <<cells, baseJSCode, rwReaders, nextCell, heap, op, sid, js, cont, cell, err,
                   res, ret, sendVars, cycleVars>>

\* The map after jail.cells[chatID] = cell (jail.go:73).
Store(chatID, c) == [cells EXCEPT ![chatID] = c]

\* jail.go:73-76  store the Cell, Unlock, return it
NewCell_write(t) ==
    /\ pc[t] = "NewCell_write"
    /\ cells' = Store(sid[t], cell[t])
    /\ rwWriter' = NoProc
    /\ Goto(t, cont[t])
    /\ UNCHANGED <<baseJSCode, rwReaders, nextCell, heap, op, sid, js, cont, cell, err, res, ret,
                   sendVars, cycleVars>>

\* ============================================================== the Cell
\* Cell.Set, Cell.Run, Cell.Get and Cell.Call run one at a time on a Cell:
\* a process can operate on the Cell when no other process is inside it.
CellFree(c, t) == heap[c].lock \in {NoProc, t}

\* ================================================================= Parse
\* jail.go:94-99  Parse calls jail.Cell(chatID)
ParseStart(t, chatID) ==
    /\ pc[t] = "idle"
    /\ pc' = [pc EXCEPT ![t] = "Cell_rlock"]
    /\ op' = [op EXCEPT ![t] = "Parse"]
    /\ sid' = [sid EXCEPT ![t] = chatID]
    /\ cont' = [cont EXCEPT ![t] = "Parse_cell"]
    /\ UNCHANGED <<regVars, js, cell, err, res, ret, sendVars, cycleVars>>

\* jail.go:100-101  no Cell: call jail.NewCell(chatID); else go on with it
Parse_cell(t) ==
    /\ pc[t] = "Parse_cell"
    /\ IF err[t] # ""
       THEN /\ Goto(t, "NewCell_alloc")
            /\ cont' = [cont EXCEPT ![t] = "Parse_newcell"]
       ELSE /\ Goto(t, "Parse_set")
            /\ UNCHANGED cont
    /\ UNCHANGED <<regVars, op, sid, js, cell, err, res, ret, sendVars, cycleVars>>

\* jail.go:101-105  NewCell failed: error envelope; else look the Cell up again
Parse_newcell(t) ==
    /\ pc[t] = "Parse_newcell"
    /\ IF err[t] # ""
       THEN /\ ret' = [ret EXCEPT ![t] = makeError(err[t])]
            /\ Goto(t, "done")
            /\ UNCHANGED cont
       ELSE /\ Goto(t, "Cell_rlock")
            /\ cont' = [cont EXCEPT ![t] = "Parse_set"]
            /\ UNCHANGED ret
    /\ UNCHANGED <<regVars, op, sid, js, cell, err, res, sendVars, cycleVars>>

\* A failing step of Parse taking the Cell out of the registry again.
ParseFailRollback(t, msg) ==
    /\ err' = [err EXCEPT ![t] = msg]
    /\ ret' = [ret EXCEPT ![t] = makeError(msg)]
    /\ cells' = [cells EXCEPT ![sid[t]] = NilCell]
    /\ UNCHANGED res
    /\ Goto(t, "done")

\* One step of Parse on its Cell that, like every engine call, can fail:
\* on failure Parse returns makeError(err.Error()) and does nothing else;
\* jail.cells stays as it is.
ParseFail(t, msg) ==
    /\ err' = [err EXCEPT ![t] = msg]
    /\ ret' = [ret EXCEPT ![t] = makeError(msg)]
    /\ UNCHANGED <<cells, res>>
    /\ Goto(t, "done")

\* Parse running the bootstrap right after cell.Set, the handlers left out.
Parse_setThenRun(t) ==
    /\ pc[t] = "Parse_set"
    /\ CellFree(cell[t], t)
    /\ heap' = [heap EXCEPT ![cell[t]].jeth = "object"]
    /\ err' = [err EXCEPT ![t] = ""]
    /\ Goto(t, "Parse_base")
    /\ UNCHANGED <<cells, baseJSCode, rwWriter, rwReaders, nextCell, op, sid, js, cont, cell,
                   res, ret, sendVars, cycleVars>>

\* jail.go:109-111  cell.Set("jeth", struct{}{}): the global jeth becomes
\* an empty object
Parse_set(t) ==
    /\ pc[t] = "Parse_set"
    /\ CellFree(cell[t], t)
    /\ \/ /\ heap' = [heap EXCEPT ![cell[t]].jeth = "object"]
          /\ err' = [err EXCEPT ![t] = ""]
          /\ Goto(t, "Parse_handlers")
          /\ UNCHANGED <<cells, res, ret>>
       \/ /\ ParseFail(t, "set failed")
          /\ UNCHANGED heap
    /\ UNCHANGED <<baseJSCode, rwWriter, rwReaders, nextCell, op, sid, js, cont, cell,
                   sendVars, cycleVars>>

\* jail.go:113-115  registerHandlers(jail, cell, chatID): jeth gets send,
\* sendAsync and the other handlers
Parse_handlers(t) ==
    /\ pc[t] = "Parse_handlers"
    /\ CellFree(cell[t], t)
    /\ \/ /\ heap' = [heap EXCEPT ![cell[t]].jeth = "handlers"]
          /\ Goto(t, "Parse_base")
          /\ UNCHANGED <<cells, err, res, ret>>
       \/ /\ ParseFail(t, "handlers failed")
          /\ UNCHANGED heap
    /\ UNCHANGED <<baseJSCode, rwWriter, rwReaders, nextCell, op, sid, js, cont, cell,
                   sendVars, cycleVars>>

\* The processes inside the store of jail.baseJSCode (jail.go:56).
BaseWriters == {w \in Procs : pc[w] = "BaseJS_write"}

\* What a string read that races with a store of the string can yield
\* besides the old and the new text: one word of each.
Torn == "<torn>"

\* jail.go:117  the read of jail.baseJSCode, under no lock: the text stored
\* last, or, racing with the stores in progress, also their texts or a
\* torn string.
ReadBase ==
    {baseJSCode} \cup {js[w] : w \in BaseWriters}
    \cup (IF BaseWriters = {} THEN {} ELSE {Torn})

\* jail.go:117  the bootstrap text Parse runs
initJs(text) == text \o ";"

\* jail.go:117-120  cell.Run(initJs)
Parse_base(t) ==
    /\ pc[t] = "Parse_base"
    /\ CellFree(cell[t], t)
    /\ \/ /\ \E text \in ReadBase : heap' = [heap EXCEPT ![cell[t]].boot = initJs(text)]
          /\ Goto(t, "Parse_user")
          /\ UNCHANGED <<cells, err, res, ret>>
       \/ /\ ParseFail(t, "base js failed")
          /\ UNCHANGED heap
    /\ UNCHANGED <<baseJSCode, rwWriter, rwReaders, nextCell, op, sid, js, cont, cell,
                   sendVars, cycleVars>>

\* rxsend_test.go:4-13 and 59-100: the globals the fixture's top level binds
\* (status, _status_catalog, context = {}, and the functions).
LoadFixture(c) == [c EXCEPT !.script = TRUE, !.context = {}]

\* jail.go:122-132  cell.Run(web3 + js + catalog epilogue); a failing run
\* keeps the globals it bound before it failed.
Parse_user(t) ==
    /\ pc[t] = "Parse_user"
    /\ CellFree(cell[t], t)
    /\ \/ /\ heap' = [heap EXCEPT ![cell[t]] = LoadFixture(@)]
          /\ Goto(t, "Parse_get")
          /\ UNCHANGED <<cells, err, res, ret>>
       \/ /\ ParseFail(t, "user js failed")
          /\ \/ UNCHANGED heap
             \/ heap' = [heap EXCEPT ![cell[t]] = LoadFixture(@)]
    /\ UNCHANGED <<baseJSCode, rwWriter, rwReaders, nextCell, op, sid, js, cont, cell,
                   sendVars, cycleVars>>

\* rxsend_test.go:94-100 through the epilogue of jail.go:129
catalog == "{\"commands\":{},\"responses\":{}}"

\* jail.go:134-139  cell.Get("catalog"), makeResult
Parse_get(t) ==
    /\ pc[t] = "Parse_get"
    /\ CellFree(cell[t], t)
    /\ \/ /\ res' = [res EXCEPT ![t] = catalog]
          /\ ret' = [ret EXCEPT ![t] = makeResult(catalog, "")]
          /\ Goto(t, "done")
          /\ UNCHANGED <<cells, err>>
       \/ ParseFail(t, "get failed")
    /\ UNCHANGED <<baseJSCode, rwWriter, rwReaders, nextCell, heap, op, sid, js, cont, cell,
                   sendVars, cycleVars>>

\* ========================================================= request values
\* RPCCall.ID as a response carries it: a number, JSON null, or the pointer
\* &req.ID to the range variable of Send's loop.
IntId(n) == [tag |-> "int", n |-> n]
NullId == [tag |-> "null", n |-> 0]
ReqIdPtr == [tag |-> "ptr", n |-> 0]

\* jail.go:187, 196, 222: the id a response shows when the script reads it.
\* &req.ID points to the range variable req, which holds the call the loop
\* assigned last.
Deref(id, t) == IF id.tag = "ptr" THEN IntId(req[t].ID) ELSE id

\* The values a script can hand to jeth.send, by the JSON text that
\* JSON.stringify makes of them: an array of calls, an array json.Unmarshal
\* rejects, a call object, an object json.Unmarshal rejects, null, another
\* scalar, and a value JSON.stringify throws on.
RECURSIVE SeqsUpTo(_, _)
SeqsUpTo(S, n) ==
    IF n = 0 THEN {<<>>}
    ELSE LET shorter == SeqsUpTo(S, n - 1)
         IN shorter \cup {Append(q, x) : q \in {r \in shorter : Len(r) = n - 1}, x \in S}

Calls == [ID : Ids]

WellFormed(n) ==
    {[kind |-> "array", calls |-> q] : q \in SeqsUpTo(Calls, n)}
    \cup {[kind |-> "object", calls |-> <<c>>] : c \in Calls}

PayloadsUpTo(n) ==
    WellFormed(n)
    \cup {[kind |-> k, calls |-> <<>>] :
             k \in {"badarray", "badobject", "null", "scalar", "cyclic"}}

\* reqVal.String(): the text of the payload (jail.go:158, 164)
RawText(p) ==
    CASE p.kind = "array" -> "[" \o (IF p.calls = <<>> THEN "" ELSE "{..}") \o "]"
      [] p.kind = "badarray" -> "[1]"
      [] p.kind = "object" -> "{..}"
      [] p.kind = "badobject" -> "{\"id\":\"x\"}"
      [] p.kind = "null" -> "null"
      [] OTHER -> "1"

\* json.Unmarshal(rawReq, &reqs) and json.Unmarshal(rawReq, &reqs[0]):
\* null decodes into any target without an error and leaves it as it was.
Unmarshal(p, intoSlice) ==
    IF intoSlice
    THEN IF p.kind = "array" THEN [err |-> "", reqs |-> p.calls]
         ELSE [err |-> "cannot unmarshal", reqs |-> <<>>]
    ELSE IF p.kind = "object" THEN [err |-> "", reqs |-> p.calls]
         ELSE IF p.kind = "null" THEN [err |-> "", reqs |-> <<NoCall>>]
         ELSE [err |-> "cannot unmarshal", reqs |-> <<NoCall>>]

BoolText(b) == IF b THEN "true" ELSE "false"

\* jail.go:218-228
newErrorResponse(msg, id) ==
    [jsonrpc |-> "2.0", id |-> id, error |-> [code |-> -32603, message |-> msg]]

\* newErrorResponseOtto losing the error text.
newErrorResponseOttoNoText(msg, id) == newErrorResponse("", id)

\* jail.go:230-235: the response marshalled to JSON and evaluated in the VM
newErrorResponseOtto(msg, id) == newErrorResponse(msg, id)

\* The response of a call the Execution Policy executed.
PolicyResponse(call) == [jsonrpc |-> "2.0", id |-> IntId(call.ID), result |-> "0x0"]

\* The outcomes of jail.policy.Execute that Send tells apart (jail.go:189-197):
\* a result, an error, a common.StopRPCCallError.
PolicyOutcomes == {"ok", "error", "stop"}

\* ================================================================== Send
Throw(t, msg) ==
    /\ sendRet' = [sendRet EXCEPT ![t] = [kind |-> "throw", val |-> msg]]
    /\ Goto(t, "Call_fnret")

\* jail.go:169  rawReq[0] == '['
IsBatch(p) == p.kind \in {"array", "badarray"}

\* jail.go:158-184  stringify the argument, decode it, make the array
Send_begin(t) ==
    /\ pc[t] = "Send_begin"
    /\ IF payload[t].kind = "cyclic"
       THEN /\ Throw(t, "TypeError: Converting circular structure to JSON")
            /\ UNCHANGED <<batch, reqs, idx, resps>>
       ELSE LET b == IsBatch(payload[t])
                d == Unmarshal(payload[t], b)
            IN /\ batch' = [batch EXCEPT ![t] = b]
               /\ reqs' = [reqs EXCEPT ![t] = d.reqs]
               /\ IF d.err # ""
                  THEN /\ Throw(t, "can't unmarshal " \o RawText(payload[t])
                                     \o " (batch=" \o BoolText(b) \o "): " \o d.err)
                       /\ UNCHANGED <<idx, resps>>
                  ELSE /\ resps' = [resps EXCEPT ![t] = <<>>]
                       /\ idx' = [idx EXCEPT ![t] = 1]
                       /\ Goto(t, "Send_next")
                       /\ UNCHANGED sendRet
    /\ UNCHANGED <<regVars, op, sid, js, cont, cell, err, res, ret, payload, req, execLog,
                   cycleVars>>

\* jail.go:187-189  the next req of the range; jail.policy.Execute(req, vm) starts
Send_exec(t) ==
    /\ pc[t] = "Send_next"
    /\ idx[t] <= Len(reqs[t])
    /\ req' = [req EXCEPT ![t] = reqs[t][idx[t]]]
    /\ execLog' = [execLog EXCEPT ![t] =
                      Append(@, [call |-> reqs[t][idx[t]], outcome |-> "pending"])]
    /\ Goto(t, "Send_policy")
    /\ UNCHANGED <<regVars, op, sid, js, cont, cell, err, res, ret, payload, batch, reqs, idx,
                   resps, sendRet, cycleVars>>

\* Classify with the StopRPCCallError case lost: every error is pushed.
ClassifyNoStop(outcome, r) ==
    CASE outcome = "ok" -> [do |-> "push", res |-> PolicyResponse(r)]
      [] outcome = "error" -> [do |-> "push", res |-> newErrorResponse("boom", ReqIdPtr)]
      [] OTHER -> [do |-> "push", res |-> newErrorResponse("stop", ReqIdPtr)]

\* Classify with every error returning from the loop.
ClassifyErrorAborts(outcome, r) ==
    CASE outcome = "ok" -> [do |-> "push", res |-> PolicyResponse(r)]
      [] outcome = "error" -> [do |-> "return", res |-> newErrorResponseOtto("boom", NullId)]
      [] OTHER -> [do |-> "return", res |-> newErrorResponseOtto("stop", NullId)]

\* jail.go:192-198  what Send does with the policy's outcome: the response
\* to push, or "return" for the StopRPCCallError case.
Classify(outcome, r) ==
    CASE outcome = "ok" -> [do |-> "push", res |-> PolicyResponse(r)]
      [] outcome = "error" -> [do |-> "push", res |-> newErrorResponse("boom", ReqIdPtr)]
      [] OTHER -> [do |-> "return", res |-> newErrorResponseOtto("stop", NullId)]

\* jail.go:189-204  Execute returns (having called addContext for the keys
\* K); Send pushes the response or returns the stop response
Send_policy(t) ==
    /\ pc[t] = "Send_policy"
    /\ \E outcome \in PolicyOutcomes, K \in SUBSET CtxKeys :
          LET c == Classify(outcome, req[t])
          IN /\ execLog' = [execLog EXCEPT ![t][Len(execLog[t])].outcome = outcome]
             /\ heap' = [heap EXCEPT ![cell[t]].context = @ \cup K]
             /\ added' = [added EXCEPT ![t] = @ \cup K]
             /\ IF c.do = "return"
                THEN /\ sendRet' = [sendRet EXCEPT ![t] = [kind |-> "value", val |-> c.res]]
                     /\ Goto(t, "Call_fnret")
                     /\ UNCHANGED <<resps, idx>>
                ELSE /\ resps' = [resps EXCEPT ![t] = Append(@, c.res)]
                     /\ idx' = [idx EXCEPT ![t] = @ + 1]
                     /\ Goto(t, "Send_next")
                     /\ UNCHANGED sendRet
    /\ UNCHANGED <<cells, baseJSCode, rwWriter, rwReaders, nextCell, op, sid, js, cont, cell,
                   err, res, ret, payload, batch, reqs, req, wiped>>

\* Shape unwrapping every one-element array.
ShapeUnwrapOne(b, rs) ==
    IF b /\ Len(rs) # 1 THEN [kind |-> "array", val |-> rs]
    ELSE [kind |-> "value", val |-> rs[1]]

\* jail.go:206-215  the value Send returns after the loop
Shape(b, rs) ==
    IF b THEN [kind |-> "array", val |-> rs] ELSE [kind |-> "value", val |-> rs[1]]

Send_return(t) ==
    /\ pc[t] = "Send_next"
    /\ idx[t] > Len(reqs[t])
    /\ sendRet' = [sendRet EXCEPT ![t] = Shape(batch[t], resps[t])]
    /\ Goto(t, "Call_fnret")
    /\ UNCHANGED <<regVars, op, sid, js, cont, cell, err, res, ret, payload, batch, reqs, idx, req,
                   resps, execLog, cycleVars>>

\* ================================================================== Call
\* jail.go:143-144  Call calls jail.Cell(chatID)
CallStart(t, chatID) ==
    /\ pc[t] = "idle"
    /\ pc' = [pc EXCEPT ![t] = "Cell_rlock"]
    /\ op' = [op EXCEPT ![t] = "Call"]
    /\ sid' = [sid EXCEPT ![t] = chatID]
    /\ cont' = [cont EXCEPT ![t] = "Call_cell"]
    /\ UNCHANGED <<regVars, js, cell, err, res, ret, sendVars, cycleVars>>

\* jail.go:145-147  no Cell: error envelope; else cell.Call("call", ...)
Call_cell(t) ==
    /\ pc[t] = "Call_cell"
    /\ IF err[t] # ""
       THEN /\ ret' = [ret EXCEPT ![t] = makeError(err[t])]
            /\ Goto(t, "done")
       ELSE /\ Goto(t, "Call_enter")
            /\ UNCHANGED ret
    /\ UNCHANGED <<regVars, op, sid, js, cont, cell, err, res, sendVars, cycleVars>>

\* Cell.Call entering the Cell whoever is inside it.
CellUnguarded(c) == TRUE

\* Cell.Call waits until no other process is inside the Cell.
CellAcquirable(c) == heap[c].lock = NoProc

\* jail.go:149  cell.Call enters the Cell
Call_enter(t) ==
    /\ pc[t] = "Call_enter"
    /\ CellAcquirable(cell[t])
    /\ heap' = [heap EXCEPT ![cell[t]].lock = t]
    /\ Goto(t, "Call_js")
    /\ UNCHANGED <<cells, baseJSCode, rwWriter, rwReaders, nextCell, op, sid, js, cont, cell,
                   err, res, ret, sendVars, cycleVars>>

\* call() without the reset of line 30.
KeepContext(ctx) == ctx

\* rxsend_test.go:30  context = {}
ResetContext(ctx) == {}

\* The Cell after cell.Call returned: the process has left it.
Leave(c) == [c EXCEPT !.lock = NoProc]

\* What the arguments of Jail.Call lead call() to: text JSON.parse rejects,
\* a path the catalog does not have, the path of a command.
CallArgs == {"badjson", "unknown", "command"}

\* The Cell when call() threw or returned: the process has left it.
Failed(t, msg) ==
    /\ heap' = [heap EXCEPT ![cell[t]] = Leave(@)]
    /\ err' = [err EXCEPT ![t] = msg]
    /\ res' = [res EXCEPT ![t] = "undefined"]
    /\ ret' = [ret EXCEPT ![t] = makeResult("undefined", msg)]
    /\ Goto(t, "done")
    /\ UNCHANGED <<payload, added, wiped>>

\* rxsend_test.go:22-44  the script's call(): without the fixture's globals
\* there is no such function; JSON.parse of the arguments can throw; else
\* reset the context and resolve the path; an unknown path returns null, a
\* known one runs fn, which calls jeth.send(p), and throws when jeth has no
\* send.
Call_js(t, args, p) ==
    /\ pc[t] = "Call_js"
    /\ IF ~heap[cell[t]].script
       THEN Failed(t, "ReferenceError: 'call' is not defined")
       ELSE IF args = "badjson"
       THEN Failed(t, "SyntaxError: invalid character")
       ELSE /\ added' = [added EXCEPT ![t] = {}]
            /\ wiped' = [wiped EXCEPT ![t] = heap[cell[t]].context]
            /\ IF args = "command" /\ heap[cell[t]].jeth # "handlers"
               THEN /\ heap' = [heap EXCEPT ![cell[t]] =
                                  Leave([@ EXCEPT !.context = ResetContext(@)])]
                    /\ err' = [err EXCEPT ![t] = "TypeError: 'send' is not a function"]
                    /\ res' = [res EXCEPT ![t] = "undefined"]
                    /\ ret' = [ret EXCEPT ![t] =
                                 makeResult("undefined", "TypeError: 'send' is not a function")]
                    /\ Goto(t, "done")
                    /\ UNCHANGED payload
               ELSE IF args = "unknown"
               THEN /\ heap' = [heap EXCEPT ![cell[t]] =
                                  Leave([@ EXCEPT !.context = ResetContext(@)])]
                    /\ res' = [res EXCEPT ![t] = "null"]
                    /\ ret' = [ret EXCEPT ![t] = makeResult("null", "")]
                    /\ Goto(t, "done")
                    /\ UNCHANGED <<payload, err>>
               ELSE /\ heap' = [heap EXCEPT ![cell[t]].context = ResetContext(@)]
                    /\ payload' = [payload EXCEPT ![t] = p]
                    /\ Goto(t, "Send_begin")
                    /\ UNCHANGED <<err, res, ret>>
    /\ UNCHANGED <<cells, baseJSCode, rwWriter, rwReaders, nextCell, op, sid, js, cont, cell,
                   batch, reqs, idx, req, resps, execLog, sendRet>>

\* What `call` of a script other than the fixture can hand to Jail.Call:
\* the text of the value it returns, and the text of the error it throws.
ResTexts == {"undefined", "null", "5", "\"undefined\"", "{\"a\":[1,2]}"}
ErrTexts == {"", "boom", "say \"hi\"", "a\\b", "1 < 2 && 3 > 2", "two\nlines"}

\* jail.go:149-151  cell.Call returns (res, err) of any script's call();
\* Call returns makeResult(res.String(), err)
Call_any(t, r, e) ==
    /\ pc[t] = "Call_js"
    /\ heap' = [heap EXCEPT ![cell[t]] = Leave(@)]
    /\ res' = [res EXCEPT ![t] = r]
    /\ err' = [err EXCEPT ![t] = e]
    /\ ret' = [ret EXCEPT ![t] = makeResult(r, e)]
    /\ Goto(t, "done")
    /\ UNCHANGED <<cells, baseJSCode, rwWriter, rwReaders, nextCell, op, sid, js, cont, cell,
                   sendVars, cycleVars>>

\* JSON.stringify of {result: callResult, context: context[status.message_id]}
\* (rxsend_test.go:45-56); an undefined context is left out.
RECURSIVE KeysText(_)
KeysText(K) ==
    IF K = {} THEN ""
    ELSE LET k == CHOOSE x \in K : TRUE
         IN Quote(k) \o ":true" \o (IF K = {k} THEN "" ELSE ",") \o KeysText(K \ {k})

CallText(ctx) ==
    "{\"result\":{}"
    \o (IF ctx = {} THEN "" ELSE ",\"context\":{" \o KeysText(ctx) \o "}") \o "}"

\* The locals of Send and of the script's call() end with them.
ClearSend(t) ==
    /\ payload' = [payload EXCEPT ![t] = NoPayload]
    /\ batch' = [batch EXCEPT ![t] = FALSE]
    /\ reqs' = [reqs EXCEPT ![t] = <<>>]
    /\ idx' = [idx EXCEPT ![t] = 0]
    /\ req' = [req EXCEPT ![t] = NoCall]
    /\ resps' = [resps EXCEPT ![t] = <<>>]
    /\ execLog' = [execLog EXCEPT ![t] = <<>>]
    /\ sendRet' = [sendRet EXCEPT ![t] = NoSendRet]
    /\ added' = [added EXCEPT ![t] = {}]
    /\ wiped' = [wiped EXCEPT ![t] = {}]

\* rxsend_test.go:44-56, jail.go:149-151  fn returned or threw: call()
\* returns its text or the exception leaves it; cell.Call returns; makeResult
Call_fnret(t) ==
    /\ pc[t] = "Call_fnret"
    /\ heap' = [heap EXCEPT ![cell[t]] = Leave(@)]
    /\ IF sendRet[t].kind = "throw"
       THEN /\ err' = [err EXCEPT ![t] = sendRet[t].val]
            /\ res' = [res EXCEPT ![t] = "undefined"]
            /\ ret' = [ret EXCEPT ![t] = makeResult("undefined", sendRet[t].val)]
       ELSE /\ res' = [res EXCEPT ![t] = CallText(heap[cell[t]].context)]
            /\ ret' = [ret EXCEPT ![t] = makeResult(CallText(heap[cell[t]].context), "")]
            /\ UNCHANGED err
    /\ ClearSend(t)
    /\ Goto(t, "done")
    /\ UNCHANGED <<cells, baseJSCode, rwWriter, rwReaders, nextCell, op, sid, js, cont, cell>>

\* The API call returned to its caller; the goroutine is free for the next.
Finish(t) ==
    /\ pc[t] = "done"
    /\ pc' = [pc EXCEPT ![t] = "idle"]
    /\ op' = [op EXCEPT ![t] = ""]
    /\ sid' = [sid EXCEPT ![t] = ""]
    /\ js' = [js EXCEPT ![t] = ""]
    /\ cont' = [cont EXCEPT ![t] = ""]
    /\ cell' = [cell EXCEPT ![t] = NilCell]
    /\ err' = [err EXCEPT ![t] = ""]
    /\ res' = [res EXCEPT ![t] = ""]
    /\ ret' = [ret EXCEPT ![t] = ""]
    /\ UNCHANGED <<regVars, sendVars, cycleVars>>

\* ========================================================= specifications
\* jail.go:39-52  the Jail New() returns; every goroutine outside the Jail
IdleProcs ==
    /\ pc = [t \in Procs |-> "idle"]
    /\ op = [t \in Procs |-> ""]
    /\ sid = [t \in Procs |-> ""]
    /\ js = [t \in Procs |-> ""]
    /\ cont = [t \in Procs |-> ""]
    /\ cell = [t \in Procs |-> NilCell]
    /\ err = [t \in Procs |-> ""]
    /\ res = [t \in Procs |-> ""]
    /\ ret = [t \in Procs |-> ""]
    /\ payload = [t \in Procs |-> NoPayload]
    /\ batch = [t \in Procs |-> FALSE]
    /\ reqs = [t \in Procs |-> <<>>]
    /\ idx = [t \in Procs |-> 0]
    /\ req = [t \in Procs |-> NoCall]
    /\ resps = [t \in Procs |-> <<>>]
    /\ execLog = [t \in Procs |-> <<>>]
    /\ sendRet = [t \in Procs |-> NoSendRet]
    /\ added = [t \in Procs |-> {}]
    /\ wiped = [t \in Procs |-> {}]

Init ==
    /\ cells = [s \in Sessions |-> NilCell]
    /\ baseJSCode = ""
    /\ rwWriter = NoProc
    /\ rwReaders = {}
    /\ nextCell = 1
    /\ heap = [c \in CellIds |-> FreshCell]
    /\ IdleProcs

\* The goroutine that runs the scripts' commands.
Dispatcher == "p1"

\* The registry under concurrent callers: every goroutine looks Cells up
\* and calls into them, the dispatcher also sets the bootstrap source, the
\* others also create and initialize the Cells.  The calls of Jail.Call name
\* a path the catalog does not have or pass arguments that are no JSON, so
\* call() runs no command; SpecCall, SpecSend and SpecBusy run the commands.
Next ==
    \/ \E text \in BaseSources : BaseJSStart(Dispatcher, text)
    \/ BaseJS_write(Dispatcher)
    \/ \E t \in Procs \ {Dispatcher} :
          \/ \E s \in NewSessions : NewCellStart(t, s)
          \/ \E s \in NewSessions : ParseStart(t, s)
          \/ NewCell_alloc(t)
          \/ NewCell_lock(t)
          \/ NewCell_write(t)
          \/ Parse_cell(t)
          \/ Parse_newcell(t)
          \/ Parse_set(t)
          \/ Parse_handlers(t)
          \/ Parse_base(t)
          \/ Parse_user(t)
          \/ Parse_get(t)
    \/ \E t \in Procs :
          \/ \E s \in Sessions : CellStart(t, s)
          \/ Cell_rlock(t)
          \/ Cell_read(t)
          \/ \E s \in Sessions : CallStart(t, s)
          \/ Call_cell(t)
          \/ Call_enter(t)
          \/ \E a \in CallArgs \ {"command"} : Call_js(t, a, NoPayload)
          \/ Finish(t)

Spec == Init /\ [][Next]_vars

\* Callers that only run Jail.Parse, concurrently.
NextParse ==
    \E t \in Procs :
        \/ \E s \in NewSessions : ParseStart(t, s)
        \/ Cell_rlock(t)
        \/ Cell_read(t)
        \/ NewCell_alloc(t)
        \/ NewCell_lock(t)
        \/ NewCell_write(t)
        \/ Parse_cell(t)
        \/ Parse_newcell(t)
        \/ Parse_set(t)
        \/ Parse_handlers(t)
        \/ Parse_base(t)
        \/ Parse_user(t)
        \/ Parse_get(t)
        \/ Finish(t)

SpecParse == Init /\ [][NextParse]_vars

\* A session that Parse("s1", fixture) has set up: the other states of a
\* Jail in which dispatch cycles run.
InitSend ==
    /\ cells = [s \in Sessions |-> IF s = "s1" THEN 1 ELSE NilCell]
    /\ baseJSCode = ""
    /\ rwWriter = NoProc
    /\ rwReaders = {}
    /\ nextCell = 2
    /\ heap = [c \in CellIds |->
                 IF c = 1
                 THEN [LoadFixture(FreshCell) EXCEPT !.jeth = "handlers", !.boot = ";"]
                 ELSE FreshCell]
    /\ IdleProcs

\* Concurrent lookups and dispatch cycles on the sessions of InitSend.
NextCall ==
    \E t \in Procs :
        \/ \E s \in Sessions : CellStart(t, s)
        \/ \E s \in Sessions : CallStart(t, s)
        \/ Cell_rlock(t)
        \/ Cell_read(t)
        \/ Call_cell(t)
        \/ Call_enter(t)
        \/ \E a \in CallArgs, p \in WellFormed(CycleBatch) : Call_js(t, a, p)
        \/ Send_begin(t)
        \/ Send_exec(t)
        \/ Send_policy(t)
        \/ Send_return(t)
        \/ Call_fnret(t)
        \/ Finish(t)

SpecCall == InitSend /\ [][NextCall]_vars

\* The dispatcher alone: one goroutine runs dispatch cycles against a
\* session that Parse("s1", fixture) has set up.
NextSend ==
    \/ \E s \in Sessions : CallStart(Dispatcher, s)
    \/ Cell_rlock(Dispatcher)
    \/ Cell_read(Dispatcher)
    \/ Call_cell(Dispatcher)
    \/ Call_enter(Dispatcher)
    \/ \E a \in CallArgs, p \in PayloadsUpTo(MaxBatch) : Call_js(Dispatcher, a, p)
    \/ Send_begin(Dispatcher)
    \/ Send_exec(Dispatcher)
    \/ Send_policy(Dispatcher)
    \/ Send_return(Dispatcher)
    \/ Call_fnret(Dispatcher)
    \/ Finish(Dispatcher)

SpecSend == InitSend /\ [][NextSend]_vars

\* The dispatcher runs dispatch cycles while the other goroutines look
\* Cells up and create and initialize Cells for the sessions without one.
FreeSessions == Sessions \ {"s1"}

NextBusy ==
    \/ \E s \in Sessions : CallStart(Dispatcher, s)
    \/ Call_cell(Dispatcher)
    \/ Call_enter(Dispatcher)
    \/ \E a \in CallArgs, p \in WellFormed(CycleBatch) : Call_js(Dispatcher, a, p)
    \/ Send_begin(Dispatcher)
    \/ Send_exec(Dispatcher)
    \/ Send_policy(Dispatcher)
    \/ Send_return(Dispatcher)
    \/ Call_fnret(Dispatcher)
    \/ \E t \in Procs \ {Dispatcher} :
          \/ \E s \in Sessions : CellStart(t, s)
          \/ \E s \in FreeSessions : NewCellStart(t, s)
          \/ \E s \in FreeSessions : ParseStart(t, s)
          \/ NewCell_alloc(t)
          \/ NewCell_lock(t)
          \/ NewCell_write(t)
          \/ Parse_cell(t)
          \/ Parse_newcell(t)
          \/ Parse_set(t)
          \/ Parse_handlers(t)
          \/ Parse_base(t)
          \/ Parse_user(t)
          \/ Parse_get(t)
    \/ \E t \in Procs :
          \/ Cell_rlock(t)
          \/ Cell_read(t)
          \/ Finish(t)

SpecBusy == InitSend /\ [][NextBusy]_vars

\* Jail.Call on sessions whose scripts return and throw the texts of
\* ResTexts and ErrTexts: makeResult and makeError on every pair of them.
NextEnvelope ==
    \E t \in Procs :
        \/ \E s \in Sessions : CallStart(t, s)
        \/ Cell_rlock(t)
        \/ Cell_read(t)
        \/ Call_cell(t)
        \/ Call_enter(t)
        \/ \E r \in ResTexts, e \in ErrTexts : Call_any(t, r, e)
        \/ Finish(t)

SpecEnvelope == InitSend /\ [][NextEnvelope]_vars

\* ================================================================ claims
\* The Cell numbers newCell has handed out.
Allocated == 1..(nextCell - 1)

\* Locations of Parse at which its local `cell` is the Cell it works on.
ParseHolds == {"Parse_set", "Parse_handlers", "Parse_base", "Parse_user", "Parse_get"}

\* C1: concurrent Parse calls for one absent chatID create and register
\* exactly one Cell: no more Cells are created than chatIDs are parsed, and
\* the Cell a Parse works on is the Cell registered for its chatID.
C1_OneCellPerSession ==
    /\ Cardinality(Allocated) <= Cardinality(NewSessions)
    /\ \A t \in Procs :
          (op[t] = "Parse" /\ pc[t] \in ParseHolds) => cell[t] = cells[sid[t]]

\* Send has returned to the script (or thrown into it).
SendEnded(t) == pc[t] = "Call_fnret"

\* Send returned a value, not an exception.
SendReturned(t) == SendEnded(t) /\ sendRet[t].kind \in {"array", "value"}

\* The policy classified a call of this Send as fatal.
HasStop(t) == \E i \in 1..Len(execLog[t]) : execLog[t][i].outcome = "stop"

\* C2: a batch of N calls without a fatal error returns N entries, and the
\* id of entry i, as the script reads it, is the id of request i.
C2_BatchIds ==
    \A t \in Procs :
        (SendReturned(t) /\ batch[t] /\ ~HasStop(t)) =>
            /\ sendRet[t].kind = "array"
            /\ Len(sendRet[t].val) = Len(reqs[t])
            /\ \A i \in 1..Len(reqs[t]) :
                  Deref(sendRet[t].val[i].id, t) = IntId(reqs[t][i].ID)

\* C3: the policy is invoked for the calls of the request in request order,
\* each once, and never again after a call it classified as fatal: a fatal
\* call k is the last of exactly k invocations.
C3_NoExecuteAfterFatal ==
    \A t \in Procs :
        /\ Len(execLog[t]) <= Len(reqs[t])
        /\ \A i \in 1..Len(execLog[t]) :
              /\ execLog[t][i].call = reqs[t][i]
              /\ execLog[t][i].outcome = "stop" =>
                    /\ i = Len(execLog[t])
                    /\ i = idx[t]
                    /\ SendEnded(t)

C3_Witness ==
    \E t \in Procs :
        /\ SendEnded(t)
        /\ Len(reqs[t]) = 3
        /\ Len(execLog[t]) = 2
        /\ execLog[t][1].outcome = "error"
        /\ execLog[t][2].outcome = "stop"

\* C4 as claimed: a fatal error ends Send with an exception thrown into the
\* script.
C4_FatalThrows ==
    \A t \in Procs : (SendEnded(t) /\ HasStop(t)) => sendRet[t].kind = "throw"

\* C4 as amended: a fatal error ends Send with one normally returned error
\* response object (id null, code -32603, the error text as message), for a
\* batch too: no exception, no array.
C4_FatalReturnsErrorObject ==
    \A t \in Procs :
        (SendEnded(t) /\ HasStop(t)) =>
            /\ sendRet[t].kind = "value"
            /\ sendRet[t].val =
                  [jsonrpc |-> "2.0", id |-> NullId,
                   error |-> [code |-> -32603, message |-> "stop"]]

C4_Witness ==
    \E t \in Procs :
        SendEnded(t) /\ HasStop(t) /\ batch[t] /\ Len(resps[t]) = 1 /\ Len(reqs[t]) = 3

\* C5: in a Send that returned without a fatal error every call of the
\* request went to the policy once, in request order, whatever failed
\* before it, and the response has an entry for each: an error entry for a
\* failed call, a result entry for a successful one.
C5_RecoverableContinues ==
    \A t \in Procs :
        (SendReturned(t) /\ ~HasStop(t)) =>
            /\ Len(execLog[t]) = Len(reqs[t])
            /\ Len(resps[t]) = Len(reqs[t])
            /\ \A i \in 1..Len(reqs[t]) :
                  /\ execLog[t][i].call = reqs[t][i]
                  /\ execLog[t][i].outcome = "error" <=> "error" \in DOMAIN resps[t][i]
                  /\ execLog[t][i].outcome = "ok" <=> "result" \in DOMAIN resps[t][i]

C5_Witness ==
    \E t \in Procs :
        /\ SendReturned(t)
        /\ Len(reqs[t]) = 3
        /\ execLog[t][1].outcome = "error"
        /\ execLog[t][2].outcome = "ok"
        /\ execLog[t][3].outcome = "error"

\* C6 as claimed: an array payload is answered with an array, an object
\* payload with the lone response object.
C6_ShapeMirrors ==
    \A t \in Procs :
        SendReturned(t) =>
            /\ payload[t].kind = "array" => sendRet[t].kind = "array"
            /\ payload[t].kind = "object" => sendRet[t].kind = "value"

\* C6 as amended: unless a call is fatal, an array payload (of any length,
\* 0 and 1 too) is answered with the array of its responses and an object
\* payload with its lone response object; an object payload is never
\* answered with an array; after a fatal call the answer is the single stop
\* response, also for an array payload.
C6_ShapeMirrorsUnlessFatal ==
    \A t \in Procs :
        SendReturned(t) =>
            /\ (payload[t].kind = "array" /\ ~HasStop(t)) =>
                  sendRet[t] = [kind |-> "array", val |-> resps[t]]
            /\ payload[t].kind = "object" =>
                  /\ sendRet[t].kind = "value"
                  /\ ~HasStop(t) => sendRet[t].val = resps[t][1]
            /\ HasStop(t) => sendRet[t].kind = "value"

C6_Witness ==
    \E t \in Procs :
        /\ SendReturned(t)
        /\ payload[t].kind = "array"
        /\ Len(payload[t].calls) = 1
        /\ sendRet[t].kind = "array"
        /\ Len(sendRet[t].val) = 1

\* Locations of a dispatch cycle inside the Cell; from AfterReset on the
\* script's call() has reset the context.
InCycle == {"Call_js", "Send_begin", "Send_next", "Send_policy", "Call_fnret"}
AfterReset == InCycle \ {"Call_js"}

C8_NoReinit ==
    [][\A c \in CellIds : heap[c].boot # "none" => heap'[c].boot = heap[c].boot]_vars

\* C8 as amended: BaseJS touches no Cell, and only Jail.Parse runs a
\* bootstrap text in a Cell: a Cell's bootstrap text changes only in the
\* step of a Parse working on that Cell (also a Cell that existed and was
\* initialized before), and becomes the text BaseJS set last, as long as no
\* BaseJS is storing a text at that moment.
C8_OnlyParseBoots ==
    [][\A c \in CellIds :
         heap'[c].boot # heap[c].boot =>
            /\ BaseWriters = {} => heap'[c].boot = baseJSCode \o ";"
            /\ \E t \in Procs :
                  /\ op[t] = "Parse"
                  /\ pc[t] = "Parse_base"
                  /\ pc'[t] = "Parse_user"
                  /\ cell[t] = c]_vars

\* A Parse about to run the source BaseJS set in a Cell that an earlier
\* Parse initialized with the source before it.
C8_Witness ==
    \E t \in Procs :
        /\ op[t] = "Parse"
        /\ pc[t] = "Parse_base"
        /\ heap[cell[t]].boot = ";"
        /\ heap[cell[t]].script
        /\ baseJSCode = "b1"

\* C9: Jail.Cell and Jail.Call create nothing: no step of either changes
\* the registry map or makes a Cell; the lookup yields the registered Cell,
\* or no Cell and the not-found error; Call turns that error into the error
\* envelope and returns.
C9_LookupCreatesNothing ==
    [][\A t \in Procs :
         (op[t] \in {"Cell", "Call"} /\ pc'[t] # pc[t]) =>
            /\ cells' = cells
            /\ nextCell' = nextCell
            /\ pc[t] = "Cell_read" =>
                  IF cells[sid[t]] = NilCell
                  THEN cell'[t] = NilCell /\ err'[t] = "cell[" \o sid[t] \o "] doesn't exist"
                  ELSE cell'[t] = cells[sid[t]] /\ err'[t] = ""
            /\ (pc[t] = "Call_cell" /\ cell[t] = NilCell) =>
                  /\ pc'[t] = "done"
                  /\ ret'[t] = "{\"error\":\"cell[" \o sid[t] \o "] doesn't exist\"}"]_vars

C9_Witness ==
    \E t1, t2 \in Procs :
        /\ op[t1] = "Call"
        /\ pc[t1] = "done"
        /\ cells[sid[t1]] = NilCell
        /\ ret[t1] = "{\"error\":\"cell[s2] doesn't exist\"}"
        /\ op[t2] = "Cell"
        /\ pc[t2] = "done"
        /\ cell[t2] # NilCell
        /\ cell[t2] = cells[sid[t2]]

\* C10: every dispatch cycle starts its command with an empty context, and
\* the context it reads back holds only what was added during this cycle:
\* nothing an earlier cycle on the session left in the global.
C10_ContextReset ==
    \A t \in Procs :
        /\ pc[t] = "Send_begin" => heap[cell[t]].context = {}
        /\ pc[t] \in AfterReset => heap[cell[t]].context \subseteq added[t]
        /\ (op[t] = "Call" /\ pc[t] = "done" /\ ret[t] = "{\"result\": null}")
              => heap[cell[t]].context = {}

\* A cycle whose call() found the context of the cycle before in the global
\* reads back an empty context after a batch that added nothing.
C10_Witness ==
    \E t \in Procs :
        /\ pc[t] = "Call_fnret"
        /\ wiped[t] = CtxKeys
        /\ sendRet[t].kind = "array"
        /\ Len(execLog[t]) = 2
        /\ added[t] = {}
        /\ heap[cell[t]].context = {}

\* Payloads with a JSON text that is neither a call object nor an array of
\* call objects.
Undecodable == {"badarray", "badobject", "null", "scalar"}

\* C11: a Send whose payload is neither a call object nor an array of call
\* objects goes from decoding straight to its end, throws the error that
\* names the raw text and the batch flag, and hands no call to the policy.
C11_MalformedFails ==
    \A t \in Procs :
        (payload[t].kind \in Undecodable /\ pc[t] \in AfterReset \ {"Send_begin"}) =>
            /\ SendEnded(t)
            /\ execLog[t] = <<>>
            /\ sendRet[t] =
                  [kind |-> "throw",
                   val |-> "can't unmarshal " \o RawText(payload[t]) \o " (batch="
                           \o BoolText(IsBatch(payload[t])) \o "): cannot unmarshal"]

\* C12: a step of Parse that fails on its Cell (Set, registerHandlers, the
\* bootstrap, the composed script, Get) returns the error envelope of the
\* failure and leaves jail.cells as it is: the chatID keeps the Cell that
\* was registered for it; and no step at all takes an entry out of the map.
C12_FailureKeepsCell ==
    [][/\ \A t \in Procs :
             (op[t] = "Parse" /\ pc[t] \in ParseHolds /\ pc'[t] = "done" /\ err'[t] # "") =>
                /\ cells' = cells
                /\ cells'[sid[t]] # NilCell
                /\ ret'[t] = "{\"error\":\"" \o err'[t] \o "\"}"
       /\ \A s \in Sessions : cells[s] # NilCell => cells'[s] # NilCell]_vars

\* A Parse that created the Cell of its chatID, ran the bootstrap in it and
\* failed in the composed script: the Cell is still the registered one.
C12_Witness ==
    \E t \in Procs :
        /\ op[t] = "Parse"
        /\ pc[t] = "done"
        /\ err[t] = "user js failed"
        /\ ret[t] = "{\"error\":\"user js failed\"}"
        /\ cells[sid[t]] = cell[t]
        /\ heap[cell[t]].boot # "none"
        /\ nextCell = 2

\* The JSON text of the error texts of ErrTexts, written out.
JsonOf(m) ==
    CASE m = "boom" -> "\"boom\""
      [] m = "say \"hi\"" -> "\"say \\\"hi\\\"\""
      [] m = "a\\b" -> "\"a\\\\b\""
      [] m = "1 < 2 && 3 > 2" -> "\"1 \\u003c 2 \\u0026\\u0026 3 \\u003e 2\""
      [] m = "two\nlines" -> "\"two\\nlines\""

\* A Jail.Call that returned what makeResult made of the res and err that
\* cell.Call handed it.
Enveloped(t) == op[t] = "Call" /\ pc[t] = "done" /\ cell[t] # NilCell

\* C13: without an error makeResult wraps the raw text r as {"result": r},
\* the text undefined first turned into null ({"result": null} for
\* undefined, {"result": 5} for 5); with an error it is makeError of the
\* error's text, {"error":m} with m JSON-encoded, whatever the raw text is.
C13_Envelopes ==
    \A t \in Procs :
        Enveloped(t) =>
            /\ (err[t] = "" /\ res[t] = "undefined") => ret[t] = "{\"result\": null}"
            /\ (err[t] = "" /\ res[t] = "5") => ret[t] = "{\"result\": 5}"
            /\ (err[t] = "" /\ res[t] # "undefined") =>
                  ret[t] = "{\"result\": " \o res[t] \o "}"
            /\ err[t] = "boom" => ret[t] = "{\"error\":\"boom\"}"
            /\ err[t] # "" => ret[t] = "{\"error\":" \o JsonOf(err[t]) \o "}"

\* One Call returned the envelope of an undefined result, another the
\* envelope of an error with quotes in its text, its raw text left out.
C13_Witness ==
    \E t1, t2 \in Procs :
        /\ Enveloped(t1) /\ err[t1] = "" /\ res[t1] = "undefined"
        /\ ret[t1] = "{\"result\": null}"
        /\ Enveloped(t2) /\ err[t2] = "say \"hi\"" /\ res[t2] = "5"
        /\ ret[t2] = "{\"error\":\"say \\\"hi\\\"\"}"

\* The processes inside a read (jail.go:84) and inside a write (jail.go:73)
\* of jail.cells.
MapReaders == {t \in Procs : pc[t] = "Cell_read"}
MapWriters == {t \in Procs : pc[t] = "NewCell_write"}

\* C14: every access of jail.cells is made under the lock in its mode: a
\* process inside the write holds the lock exclusively, a process inside a
\* read holds it shared, and a writer inside is the only accessor: no other
\* writer and no reader is inside with it.
C14_MapAccessLocked ==
    /\ \A t \in MapWriters : rwWriter = t /\ rwReaders = {}
    /\ \A t \in MapReaders : t \in rwReaders /\ rwWriter = NoProc
    /\ MapWriters # {} => Cardinality(MapWriters \cup MapReaders) = 1
    /\ rwReaders = MapReaders
    /\ rwWriter # NoProc => MapWriters = {rwWriter}

\* A writer is inside the map while another process, that wants to read the
\* same chatID, waits at RLock.
C14_Witness ==
    \E t1, t2 \in Procs :
        /\ t1 # t2
        /\ t1 \in MapWriters
        /\ pc[t2] = "Cell_rlock"
        /\ sid[t1] = sid[t2]

\* The processes holding jail's lock, in either mode.
LockHolders == rwReaders \cup ({rwWriter} \ {NoProc})

\* C15: a process inside a dispatch cycle, and so one whose Send waits for
\* jail.policy.Execute, holds jail's lock in no mode; a process that waits
\* at RLock or Lock while every other process is inside a dispatch cycle or
\* outside the map gets the lock, and a Parse at work on the Cell of another
\* session finds that Cell free: an in-flight Send blocks no lookup and no
\* creation.
C15_NoLockInExecute ==
    \A t \in Procs :
        pc[t] \in InCycle =>
            /\ t \notin LockHolders
            /\ \A t2 \in Procs \ {t} :
                  (\A t3 \in Procs \ {t, t2} : t3 \notin LockHolders) =>
                      /\ pc[t2] = "Cell_rlock" => ENABLED Cell_rlock(t2)
                      /\ pc[t2] = "NewCell_lock" => ENABLED NewCell_lock(t2)
                      /\ (op[t2] = "Parse" /\ pc[t2] \in ParseHolds /\ cell[t2] # cell[t])
                            => CellFree(cell[t2], t2)

\* While the Send of a cycle on s1 waits for the policy, a Parse of another
\* session is inside the store of its new Cell, the write lock taken.
C15_Witness ==
    \E t1, t2 \in Procs :
        /\ pc[t1] = "Send_policy"
        /\ execLog[t1][Len(execLog[t1])].outcome = "pending"
        /\ op[t2] = "Parse"
        /\ pc[t2] = "NewCell_write"
        /\ rwWriter = t2
        /\ sid[t2] # sid[t1]

\* C16: in the array a batch returned, the entry of a call that failed with
\* a recoverable error is an error object with code -32603 and the call's
\* error text, without a result, and the id the script reads from it is the
\* id of that call.
C16_ErrorEntryId ==
    \A t \in Procs :
        (SendReturned(t) /\ batch[t] /\ sendRet[t].kind = "array") =>
            \A i \in 1..Len(sendRet[t].val) :
                execLog[t][i].outcome = "error" =>
                    /\ "result" \notin DOMAIN sendRet[t].val[i]
                    /\ sendRet[t].val[i].error = [code |-> -32603, message |-> "boom"]
                    /\ Deref(sendRet[t].val[i].id, t) = IntId(execLog[t][i].call.ID)

\* The step of Parse that follows each step when it succeeds.
ParseOrder ==
    [l \in ParseHolds |->
        CASE l = "Parse_set" -> "Parse_handlers"
          [] l = "Parse_handlers" -> "Parse_base"
          [] l = "Parse_base" -> "Parse_user"
          [] l = "Parse_user" -> "Parse_get"
          [] l = "Parse_get" -> "done"]

\* C17: a Parse takes its steps on the Cell in the order Set(jeth),
\* registerHandlers, bootstrap, composed script, Get(catalog): a step is
\* followed by the next one or, when it fails, by the return of the error
\* envelope, no later step taken; jeth gets its handlers after it was set;
\* script text runs in a Cell only in the bootstrap and composed-script
\* steps, when jeth is installed in the Cell; and the catalog is read only
\* by the step after the composed script, which ran without an error.
C17_ParseOrder ==
    [][\A t \in Procs :
         (op[t] = "Parse" /\ pc[t] \in ParseHolds /\ pc'[t] # pc[t]) =>
            /\ pc'[t] \in {ParseOrder[pc[t]], "done"}
            /\ IF err'[t] # ""
               THEN /\ pc'[t] = "done"
                    /\ ret'[t] = "{\"error\":\"" \o err'[t] \o "\"}"
                    /\ res'[t] = ""
               ELSE pc'[t] = ParseOrder[pc[t]]
            /\ heap'[cell[t]].jeth # heap[cell[t]].jeth =>
                  /\ pc[t] \in {"Parse_set", "Parse_handlers"}
                  /\ pc[t] = "Parse_handlers" => heap[cell[t]].jeth # "none"
            /\ (\/ heap'[cell[t]].boot # heap[cell[t]].boot
                \/ heap'[cell[t]].script # heap[cell[t]].script) =>
                  /\ pc[t] \in {"Parse_base", "Parse_user"}
                  /\ heap[cell[t]].jeth # "none"
                  /\ pc[t] = "Parse_user" => heap[cell[t]].boot # "none"
            /\ res'[t] # "" =>
                  /\ pc[t] = "Parse_get"
                  /\ heap[cell[t]].script
                  /\ ret'[t] = "{\"result\": " \o res'[t] \o "}"]_vars

\* A Parse that installed jeth and its handlers in a new Cell and failed in
\* the bootstrap: no script ran in the Cell and no catalog was read.
C17_Witness ==
    \E t \in Procs :
        /\ op[t] = "Parse"
        /\ pc[t] = "done"
        /\ err[t] = "base js failed"
        /\ ret[t] = "{\"error\":\"base js failed\"}"
        /\ heap[cell[t]] = [FreshCell EXCEPT !.jeth = "handlers"]
        /\ res[t] = ""

\* C18: a chatID that has a Cell keeps that Cell: no step replaces the
\* entry of the map by another Cell or takes it out.
C18_EntriesStable ==
    [][\A s \in Sessions : cells[s] # NilCell => cells'[s] = cells[s]]_vars

\* The processes about to read jail.baseJSCode in Parse (jail.go:117).
BaseReaders == {t \in Procs : op[t] = "Parse" /\ pc[t] = "Parse_base"}

\* C19: no store of the bootstrap source by BaseJS is in progress while a
\* Parse of another caller reads the source.
C19_NoRacyBaseRead ==
    \A w \in BaseWriters : BaseReaders \ {w} = {}

\* A Cell in which Parse went through all its steps: jeth has its
\* handlers, a bootstrap ran and the user script loaded its globals.
Initialized(c) ==
    /\ heap[c].jeth = "handlers"
    /\ heap[c].boot # "none"
    /\ heap[c].script

\* C20: while a Parse is still at work on the Cell of a chatID, a Call for
\* that chatID that got the Cell from the lookup and runs `call` in it finds
\* the Cell initialized.
C20_CallSeesInitialized ==
    \A t1, t2 \in Procs :
        (/\ op[t1] = "Call" /\ pc[t1] = "Call_js"
         /\ op[t2] = "Parse" /\ pc[t2] \in ParseHolds
         /\ cell[t1] = cell[t2]) => Initialized(cell[t1])

====
